---- MODULE Spec2Model ----
(***************************************************************************)
(* Model of ConstructionCostAutomation (src/construction_cost_automation.py)*)
(* and of the batch loops of src/streamlit_app.py.                         *)
(*                                                                         *)
(* populate_template: the template population heuristic over a             *)
(* spreadsheet's cell grid and its effect on the files.                    *)
(* extract_text_from_file, parse_with_ai, process_document: the stages of  *)
(* one document and their failure paths.                                   *)
(*                                                                         *)
(* Text is a sequence of one-character strings, so that "in", lower() and  *)
(* strip() are computed and not assumed.  A cell value is a record         *)
(* [k, s, n]: k = "none" (Python None), "str" (text s) or "num" (number n).*)
(***************************************************************************)
EXTENDS Integers, Sequences, FiniteSets, TLC

VARIABLES fs, pre, args, result, returned, calls,
          extraction, parsing, document, session

vars ==
    <<fs, pre, args, result, returned, calls,
      extraction, parsing, document, session>>

(***************************************************************************)
(* Bounds of the model.                                                    *)
(***************************************************************************)
MaxCalls == 2
MaxItems == 2

(***************************************************************************)
(* Cell values and text.                                                   *)
(***************************************************************************)
None == [k |-> "none", s |-> <<>>, n |-> 0]

Str(s) == [k |-> "str", s |-> s, n |-> 0]

Num(n) == [k |-> "num", s |-> <<>>, n |-> n]

Max(a, b) == IF a >= b THEN a ELSE b

\* Python truthiness of a cell value: None, "" and 0 are falsy.
Truthy(v) ==
    \/ v.k = "str" /\ Len(v.s) > 0
    \/ v.k = "num" /\ v.n # 0

\* sub in s
Contains(s, sub) ==
    \E i \in 1..(Len(s) - Len(sub) + 1) : SubSeq(s, i, i + Len(sub) - 1) = sub

UpperCase ==
    <<"A","B","C","D","E","F","G","H","I","J","K","L","M",
      "N","O","P","Q","R","S","T","U","V","W","X","Y","Z">>

LowerCase ==
    <<"a","b","c","d","e","f","g","h","i","j","k","l","m",
      "n","o","p","q","r","s","t","u","v","w","x","y","z">>

LowerChar(ch) ==
    IF \E i \in 1..Len(UpperCase) : UpperCase[i] = ch
    THEN LowerCase[CHOOSE i \in 1..Len(UpperCase) : UpperCase[i] = ch]
    ELSE ch

\* s.lower()
Lower(s) == [i \in 1..Len(s) |-> LowerChar(s[i])]

Whitespace == {" ", "\t", "\n"}

RECURSIVE LStrip(_)
LStrip(s) ==
    IF Len(s) > 0 /\ Head(s) \in Whitespace THEN LStrip(Tail(s)) ELSE s

RECURSIVE RStrip(_)
RStrip(s) ==
    IF Len(s) > 0 /\ s[Len(s)] \in Whitespace
    THEN RStrip(SubSeq(s, 1, Len(s) - 1))
    ELSE s

\* s.strip()
Strip(s) == RStrip(LStrip(s))

Digits == <<"0","1","2","3","4","5","6","7","8","9">>

IsDigit(ch) == \E i \in 1..10 : Digits[i] = ch

DigitValue(ch) == (CHOOSE i \in 1..10 : Digits[i] = ch) - 1

RECURSIVE DigitsValue(_)
DigitsValue(s) ==
    IF Len(s) = 0 THEN 0
    ELSE 10 * DigitsValue(SubSeq(s, 1, Len(s) - 1)) + DigitValue(s[Len(s)])

\* float(v): [ok, n]. A number converts to itself, a text of decimal digits
\* (surrounding whitespace allowed) to its value; None and any other text raise.
Float(v) ==
    IF v.k = "num" THEN [ok |-> TRUE, n |-> v.n]
    ELSE IF v.k = "str" /\ Len(Strip(v.s)) > 0
            /\ \A i \in 1..Len(Strip(v.s)) : IsDigit(Strip(v.s)[i])
         THEN [ok |-> TRUE, n |-> DigitsValue(Strip(v.s))]
         ELSE [ok |-> FALSE, n |-> 0]

\* f"{v:,.2f}" succeeds on numbers only.
FormatsAsMoney(v) == v.k = "num"

(***************************************************************************)
(* Files and the in-memory worksheet.                                      *)
(*                                                                         *)
(* A file is missing, not a spreadsheet ("garbage"), or a spreadsheet with *)
(* its valued cells: a function from <<row, col>> to a str or num value.   *)
(* The worksheet openpyxl holds is that function plus max_row: asking for  *)
(* worksheet.cell(row, col) creates the cell, which raises max_row to row. *)
(***************************************************************************)
NoCells == [x \in {} |-> None]

Missing == [kind |-> "missing", cells |-> NoCells]

Garbage == [kind |-> "garbage", cells |-> NoCells]

Xlsx(cells) == [kind |-> "xlsx", cells |-> cells]

RowsOf(cells) == {x[1] : x \in DOMAIN cells}

SetMax(S) == CHOOSE m \in S : \A x \in S : x <= m

\* Value of a cell of a stored sheet.
At(cells, row, col) ==
    IF <<row, col>> \in DOMAIN cells THEN cells[<<row, col>>] ELSE None

\* worksheet.max_row of a freshly loaded sheet.
LoadedMaxRow(cells) == IF DOMAIN cells = {} THEN 1 ELSE SetMax(RowsOf(cells))

\* load_workbook(path, data_only=False); workbook.active
LoadWorkbook(file) ==
    IF file.kind = "xlsx"
    THEN [ok |-> TRUE,
          ws |-> [val |-> file.cells, maxrow |-> LoadedMaxRow(file.cells)]]
    ELSE [ok |-> FALSE, ws |-> [val |-> NoCells, maxrow |-> 1]]

\* worksheet.cell(row=row, column=col): the worksheet afterwards.
Touch(ws, row) == [ws EXCEPT !.maxrow = Max(@, row)]

\* worksheet.cell(row=row, column=col).value
CellValue(ws, row, col) == At(ws.val, row, col)

\* worksheet.cell(row=row, column=col).value = v
SetValue(ws, row, col, v) ==
    [val |-> [x \in (DOMAIN ws.val) \cup {<<row, col>>} |->
                 IF x = <<row, col>> THEN v ELSE ws.val[x]],
     maxrow |-> Max(ws.maxrow, row)]

\* SavedCells that also leaves out the whitespace-only cells, which the
\* insertion scan takes for empty.
SavedCellsStripped(ws) ==
    [x \in {y \in DOMAIN ws.val :
               ws.val[y].k = "num"
               \/ (ws.val[y].k = "str" /\ Len(Strip(ws.val[y].s)) > 0)} |->
        ws.val[x]]

\* The cells workbook.save writes: those holding a value.
SavedCells(ws) ==
    [x \in {y \in DOMAIN ws.val : ws.val[y].k # "none"} |-> ws.val[x]]

(***************************************************************************)
(* Paths.  ReadOnlyPath cannot be created or written.                      *)
(***************************************************************************)
TemplatePath == "template.xlsx"

OutputPath == "COMPLETED_doc_breakdown.xlsx"

ReadOnlyPath == "/readonly/out.xlsx"

Paths == {TemplatePath, OutputPath, ReadOnlyPath}

Writable(path) == path # ReadOnlyPath

\* Copy2 that takes src = dst for a copy that is already there.
Copy2SameFileAllowed(files, src, dst) ==
    IF files[src].kind = "missing" \/ ~Writable(dst)
    THEN [ok |-> FALSE, fs |-> files]
    ELSE [ok |-> TRUE, fs |-> [files EXCEPT ![dst] = files[src]]]

\* copy2(src, dst): [ok, fs]. Raises (and changes nothing) when src and dst
\* are the same file, when src does not exist, when dst cannot be written.
Copy2(files, src, dst) ==
    IF src = dst \/ files[src].kind = "missing" \/ ~Writable(dst)
    THEN [ok |-> FALSE, fs |-> files]
    ELSE [ok |-> TRUE, fs |-> [files EXCEPT ![dst] = files[src]]]

\* SaveWorkbook that reports success whatever happened to the file.
SaveWorkbookIgnoringErrors(files, ws, path, io) ==
    IF io = "denied" THEN [ok |-> TRUE, fs |-> files]
    ELSE IF io = "partial"
         THEN [ok |-> TRUE, fs |-> [files EXCEPT ![path] = Garbage]]
         ELSE [ok |-> TRUE,
               fs |-> [files EXCEPT ![path] = Xlsx(SavedCells(ws))]]

\* workbook.save(path): [ok, fs]. io = "denied": the file cannot be opened for
\* writing; io = "partial": the write breaks off and leaves no spreadsheet.
SaveWorkbook(files, ws, path, io) ==
    IF io = "denied" THEN [ok |-> FALSE, fs |-> files]
    ELSE IF io = "partial"
         THEN [ok |-> FALSE, fs |-> [files EXCEPT ![path] = Garbage]]
         ELSE [ok |-> TRUE,
               fs |-> [files EXCEPT ![path] = Xlsx(SavedCells(ws))]]

(***************************************************************************)
(* populate_template, step 3: the header / column discovery.               *)
(***************************************************************************)
LineItemText == <<"L","i","n","e"," ","I","t","e","m">>

LineText == <<"l","i","n","e">>

ItemText == <<"i","t","e","m">>

DebugRows == 5
ScanRows == 10
ExactScanCols == 10
FallbackScanCols == 5
AmountCol == 2
DefaultLineItemCol == 1
DefaultStartRow == 2
ScanSlack == 20

\* "Template analysis": prints rows 1..5, columns 1..5 (creates those cells).
TemplateAnalysis(ws) == Touch(ws, DebugRows)

ExactMatch(v) == Truthy(v) /\ v.k = "str" /\ Contains(v.s, LineItemText)

FallbackMatch(v) ==
    /\ Truthy(v)
    /\ v.k = "str"
    /\ Contains(Lower(v.s), LineText)
    /\ Contains(Lower(v.s), ItemText)

\* What a "for ... : if match: ...; break" loop over an ascending range stops
\* at: the least of the matching indices, 0 when there is none.
FirstOf(matching) ==
    IF matching = {} THEN 0
    ELSE CHOOSE m \in matching : \A x \in matching : m <= x

\* The inner loop of lines 283-291 in one row: the column of the row's first
\* match, 0 when it holds none.
ExactScanRow(ws, row) ==
    FirstOf({col \in 1..ExactScanCols : ExactMatch(CellValue(ws, row, col))})

\* ExactScan without the outer loop's break (lines 292-293): a match in a
\* later row replaces the earlier one.
RECURSIVE ExactScanNoBreak(_, _)
ExactScanNoBreak(ws, row) ==
    IF row > 10 THEN [ws |-> ws, col |-> 0, row |-> 0]
    ELSE LET inner == FirstOf({col \in 1..10 :
                                 ExactMatch(CellValue(ws, row, col))})
             rest == ExactScanNoBreak(Touch(ws, row), row + 1)
         IN  IF rest.col # 0 \/ inner = 0 THEN rest
             ELSE [ws |-> rest.ws, col |-> inner, row |-> row]

\* The loop of lines 282-293 from row on: [ws, col, row], col = row = 0
\* standing for line_item_col_idx = header_row = None. Every row the loop
\* enters has its cells asked for, which creates them.
RECURSIVE ExactScan(_, _)
ExactScan(ws, row) ==
    IF row > ScanRows THEN [ws |-> ws, col |-> 0, row |-> 0]
    ELSE LET inner == ExactScanRow(ws, row)
         IN  IF inner # 0
             THEN [ws |-> Touch(ws, row), col |-> inner, row |-> row]
             ELSE ExactScan(Touch(ws, row), row + 1)

\* FallbackScanRow over the ten columns of the exact scan.
FallbackScanRowWide(ws, row) ==
    FirstOf({col \in 1..10 : FallbackMatch(CellValue(ws, row, col))})

\* The inner loop of lines 299-308.
FallbackScanRow(ws, row) ==
    FirstOf({col \in 1..FallbackScanCols :
                FallbackMatch(CellValue(ws, row, col))})

\* The loop of lines 298-310 from row on.
RECURSIVE FallbackScan(_, _)
FallbackScan(ws, row) ==
    IF row > ScanRows THEN [ws |-> ws, col |-> 0, row |-> 0]
    ELSE LET inner == FallbackScanRow(ws, row)
         IN  IF inner # 0
             THEN [ws |-> Touch(ws, row), col |-> inner, row |-> row]
             ELSE FallbackScan(Touch(ws, row), row + 1)

\* FindLineItemColumn with the case-insensitive scan run first and the exact
\* scan only when it found nothing.
FindLineItemColumnLooseFirst(ws) ==
    LET loose == FallbackScan(ws, 1)
        found == IF loose.col # 0 THEN loose ELSE ExactScan(loose.ws, 1)
    IN  IF found.col # 0 THEN found
        ELSE [ws |-> found.ws, col |-> DefaultLineItemCol, row |-> 0]

\* Lines 282-328: [ws, col, row] with the description column and the header
\* row (0: none recorded).
FindLineItemColumn(ws) ==
    LET exact == ExactScan(ws, 1)
        found == IF exact.col # 0 THEN exact ELSE FallbackScan(exact.ws, 1)
    IN  IF found.col # 0 THEN found
        ELSE [ws |-> found.ws, col |-> DefaultLineItemCol, row |-> 0]

\* StartRow that starts at the sheet's first row when no header was found.
StartRowFromTop(header_row) == IF header_row # 0 THEN header_row + 1 ELSE 1

\* Line 338.
StartRow(header_row) == IF header_row # 0 THEN header_row + 1 ELSE DefaultStartRow

\* IsEmptyCell without the strip(): only None counts as empty.
IsEmptyCellNoneOnly(v) == v.k = "none"

\* Line 342: cell_value is None or str(cell_value).strip() == ''
IsEmptyCell(v) == v.k = "none" \/ (v.k = "str" /\ Len(Strip(v.s)) = 0)

\* The loop of lines 340-344 from row on, limit = max_row + 20 taken at the
\* loop's start: [ws, row], row = 0 standing for insert_row = None.
RECURSIVE InsertScan(_, _, _, _)
InsertScan(ws, col, row, limit) ==
    IF row >= limit THEN [ws |-> ws, row |-> 0]
    ELSE IF IsEmptyCell(CellValue(ws, row, col))
         THEN [ws |-> Touch(ws, row), row |-> row]
         ELSE InsertScan(Touch(ws, row), col, row + 1, limit)

\* FindInsertRow that always takes the branch of lines 346-347: the row after
\* the worksheet's last row.
FindInsertRowAppending(ws, col, start_row) ==
    LET scan == InsertScan(ws, col, start_row, ws.maxrow + ScanSlack)
    IN  [ws |-> scan.ws, row |-> scan.ws.maxrow + 1]

\* Lines 337-347.
FindInsertRow(ws, col, start_row) ==
    LET scan == InsertScan(ws, col, start_row, ws.maxrow + ScanSlack)
    IN  IF scan.row # 0 THEN scan
        ELSE [ws |-> scan.ws, row |-> scan.ws.maxrow + 1]

(***************************************************************************)
(* populate_template, step 5: writing the items.  An item is a dict        *)
(* [line_item, amount] of cell values.                                     *)
(***************************************************************************)
\* Lines 364-368: the progress line is printed for the first five and the
\* last two items.
Printed(i, n) == i < 5 \/ i >= n - 2

\* WriteItem with the amount put in the column right of the description
\* instead of column B.
WriteItemBesideDescription(ws, row_idx, col, item, printed) ==
    LET ws1 == SetValue(ws, row_idx, col, item.line_item)
        amount == Float(item.amount)
        ws2 == SetValue(ws1, row_idx, col + 1, Num(amount.n))
    IN  IF ~amount.ok THEN [ok |-> FALSE, ws |-> ws1]
        ELSE IF printed /\ ~(item.amount.k = "num")
             THEN [ok |-> FALSE, ws |-> ws2]
             ELSE [ok |-> TRUE, ws |-> ws2]

\* Lines 353-366, one iteration: [ok, ws]; ok = FALSE when float() or the
\* progress line's money format raises.
WriteItem(ws, row_idx, col, item, printed) ==
    LET ws1 == SetValue(ws, row_idx, col, item.line_item)
        amount == Float(item.amount)
        ws2 == SetValue(ws1, row_idx, AmountCol, Num(amount.n))
    IN  IF ~amount.ok THEN [ok |-> FALSE, ws |-> ws1]
        ELSE IF printed /\ ~FormatsAsMoney(item.amount)
             THEN [ok |-> FALSE, ws |-> ws2]
             ELSE [ok |-> TRUE, ws |-> ws2]

\* WriteItems with row_idx = insert_row: the "+ i" of line 353 left out.
RECURSIVE WriteItemsSameRow(_, _, _, _, _)
WriteItemsSameRow(ws, line_items, i, insert_row, col) ==
    IF i >= Len(line_items) THEN [ok |-> TRUE, ws |-> ws]
    ELSE LET w == WriteItem(ws, insert_row, col, line_items[i + 1],
                            Printed(i, Len(line_items)))
         IN  IF ~w.ok THEN w
             ELSE WriteItemsSameRow(w.ws, line_items, i + 1, insert_row, col)

\* Lines 352-368 from item i (0-based) on.
RECURSIVE WriteItems(_, _, _, _, _)
WriteItems(ws, line_items, i, insert_row, col) ==
    IF i >= Len(line_items) THEN [ok |-> TRUE, ws |-> ws]
    ELSE LET w == WriteItem(ws, insert_row + i, col, line_items[i + 1],
                            Printed(i, Len(line_items)))
         IN  IF ~w.ok THEN w
             ELSE WriteItems(w.ws, line_items, i + 1, insert_row, col)

(***************************************************************************)
(* populate_template(line_items, template_path, output_path): the files    *)
(* afterwards, the return value and the locals the run printed (0: None).  *)
(* Every exception is caught at lines 380-384 and turns into False.        *)
(***************************************************************************)
Outcome(files, ret, col, header_row, start_row, insert_row) ==
    [fs |-> files, ret |-> ret, line_item_col_idx |-> col,
     header_row |-> header_row, start_row |-> start_row,
     insert_row |-> insert_row]

\* PopulateTemplate that saves the workbook when writing an item raised, as
\* a "finally: workbook.save(output_path)" would.
PopulateTemplateSavingOnError(files, line_items, template_path, output_path, io) ==
    LET copied == Copy2(files, template_path, output_path)
        loaded == LoadWorkbook(copied.fs[output_path])
        found == FindLineItemColumn(TemplateAnalysis(loaded.ws))
        start_row == StartRow(found.row)
        ins == FindInsertRow(found.ws, found.col, start_row)
        written == WriteItems(ins.ws, line_items, 0, ins.row, found.col)
        saved == SaveWorkbook(copied.fs, written.ws, output_path, io)
    IN  IF ~copied.ok THEN Outcome(copied.fs, FALSE, 0, 0, 0, 0)
        ELSE IF ~loaded.ok THEN Outcome(copied.fs, FALSE, 0, 0, 0, 0)
        ELSE IF ~written.ok
             THEN Outcome(saved.fs, FALSE, found.col, found.row, start_row, ins.row)
             ELSE Outcome(saved.fs, saved.ok, found.col, found.row, start_row, ins.row)

PopulateTemplate(files, line_items, template_path, output_path, io) ==
    LET copied == Copy2(files, template_path, output_path)
        loaded == LoadWorkbook(copied.fs[output_path])
        found == FindLineItemColumn(TemplateAnalysis(loaded.ws))
        start_row == StartRow(found.row)
        ins == FindInsertRow(found.ws, found.col, start_row)
        written == WriteItems(ins.ws, line_items, 0, ins.row, found.col)
        saved == SaveWorkbook(copied.fs, written.ws, output_path, io)
    IN  IF ~copied.ok THEN Outcome(copied.fs, FALSE, 0, 0, 0, 0)
        ELSE IF ~loaded.ok THEN Outcome(copied.fs, FALSE, 0, 0, 0, 0)
        ELSE IF ~written.ok
             THEN Outcome(copied.fs, FALSE, found.col, found.row, start_row, ins.row)
             ELSE Outcome(saved.fs, saved.ok, found.col, found.row, start_row, ins.row)

(***************************************************************************)
(* Paths as text: Path(p).name, .suffix and .stem of pathlib.              *)
(***************************************************************************)
\* Index of the last occurrence of ch in s, 0 when there is none: s.rfind.
LastIndexOf(s, ch) ==
    IF \E i \in 1..Len(s) : s[i] = ch
    THEN SetMax({i \in 1..Len(s) : s[i] = ch})
    ELSE 0

\* Path(p).name: the final component.
Name(p) == SubSeq(p, LastIndexOf(p, "/") + 1, Len(p))

\* Stem that cuts at the first dot of the name: every extension is removed.
StemBeforeFirstDot(p) ==
    LET name == Name(p)
        dots == {i \in 2..Len(name) : name[i] = "."}
    IN  IF dots = {} THEN name
        ELSE SubSeq(name, 1, (CHOOSE i \in dots : \A j \in dots : i <= j) - 1)

\* Path(p).suffix: from the last dot of the name on, when that dot is neither
\* the first nor the last character of the name; else "".
Suffix(p) ==
    LET name == Name(p)
        i == LastIndexOf(name, ".")
    IN  IF 1 < i /\ i < Len(name) THEN SubSeq(name, i, Len(name)) ELSE <<>>

\* Path(p).stem: the name without the suffix.
Stem(p) ==
    LET name == Name(p)
        i == LastIndexOf(name, ".")
    IN  IF 1 < i /\ i < Len(name) THEN SubSeq(name, 1, i - 1) ELSE name

(***************************************************************************)
(* extract_text_from_file.  An input file is [path, exists, pages]: pages  *)
(* are the texts of its pages (sheets; an image has one).  The environment *)
(* says which libraries are installed and which run breaks:                *)
(* [pymupdf, pypdf2, tesseract: BOOLEAN,                                   *)
(*  primary_fault, secondary_fault: "none", "open" (the file cannot be     *)
(*  opened) or "page" (the last page cannot be read),                      *)
(*  ocr_fault, excel_fault: BOOLEAN].                                      *)
(***************************************************************************)
NewLine == <<"\n">>

RECURSIVE JoinPages(_)
\* text_content += page_text + "\n", page by page.
JoinPages(pages) ==
    IF Len(pages) = 0 THEN <<>>
    ELSE Head(pages) \o NewLine \o JoinPages(Tail(pages))

\* Lines 14-22: PYPDF2_AVAILABLE is assigned in the except branch of the fitz
\* import only; with fitz installed the name does not exist.
ImportFlags(env) ==
    [PYMUPDF_AVAILABLE |-> env.pymupdf,
     PYPDF2_AVAILABLE |->
        IF env.pymupdf THEN "undefined"
        ELSE IF env.pypdf2 THEN "true" ELSE "false"]

\* One library's loop over the pages, appending to text_content: [ok, text].
ReadPages(pages, fault, text_content) ==
    IF fault = "open" THEN [ok |-> FALSE, text |-> text_content]
    ELSE IF fault = "page" /\ Len(pages) > 0
         THEN [ok |-> FALSE,
               text |-> text_content \o JoinPages(SubSeq(pages, 1, Len(pages) - 1))]
         ELSE [ok |-> TRUE, text |-> text_content \o JoinPages(pages)]

PdfResult(raised, text, primary_run, secondary_run) ==
    [raised |-> raised, text |-> text, primary_run |-> primary_run,
     secondary_run |-> secondary_run]

\* _extract_from_pdf (lines 93-120): the text or the exception, and which
\* library ran.  text_content is one variable for both libraries.
ExtractFromPdf(pages, env) ==
    LET flags == ImportFlags(env)
        primary == ReadPages(pages, env.primary_fault, <<>>)
        text_content == IF flags.PYMUPDF_AVAILABLE THEN primary.text ELSE <<>>
        secondary == ReadPages(pages, env.secondary_fault, text_content)
    IN  IF flags.PYMUPDF_AVAILABLE /\ primary.ok
        THEN PdfResult("none", primary.text, TRUE, FALSE)
        ELSE IF flags.PYPDF2_AVAILABLE = "undefined"
             THEN PdfResult("NameError", <<>>, flags.PYMUPDF_AVAILABLE, FALSE)
             ELSE IF flags.PYPDF2_AVAILABLE = "true"
                  THEN IF secondary.ok
                       THEN PdfResult("none", secondary.text,
                                      flags.PYMUPDF_AVAILABLE, TRUE)
                       ELSE PdfResult("ImportError", <<>>,
                                      flags.PYMUPDF_AVAILABLE, TRUE)
                  ELSE PdfResult("ImportError", <<>>,
                                 flags.PYMUPDF_AVAILABLE, FALSE)

OcrNotAvailable ==
    <<"[","O","C","R"," ","N","O","T"," ","A","V","A","I","L","A","B","L","E","]",
      " ","I","m","a","g","e"," ","f","i","l","e",":"," ">>

OcrFailed ==
    <<"[","O","C","R"," ","F","A","I","L","E","D","]",
      " ","I","m","a","g","e"," ","f","i","l","e",":"," ">>

\* _extract_from_image (lines 122-136): never raises; without OCR and on an OCR
\* error it returns a message that names the file.
ExtractFromImage(path, pages, env) ==
    IF ~env.tesseract THEN OcrNotAvailable \o Name(path)
    ELSE IF env.ocr_fault THEN OcrFailed \o Name(path)
         ELSE IF Len(pages) = 0 THEN <<>> ELSE pages[1]

SheetPrefix == <<"S","h","e","e","t",":"," ">>

RECURSIVE JoinSheets(_)
\* all_text += "Sheet: ...\n" + table + "\n\n", sheet by sheet.
JoinSheets(pages) ==
    IF Len(pages) = 0 THEN <<>>
    ELSE SheetPrefix \o NewLine \o Head(pages) \o NewLine \o NewLine
         \o JoinSheets(Tail(pages))

\* _extract_from_excel (lines 138-154): never raises.
ExtractFromExcel(pages, env) ==
    IF env.excel_fault THEN <<>> ELSE JoinSheets(pages)

PdfExt == <<".","p","d","f">>

ImageExts ==
    {<<".","p","n","g">>, <<".","j","p","g">>, <<".","j","p","e","g">>,
     <<".","b","m","p">>, <<".","t","i","f","f">>}

ExcelExts == {<<".","x","l","s","x">>, <<".","x","l","s">>}

Extracted(raised, text, pdf) ==
    [raised |-> raised, text |-> text, pdf |-> pdf]

NoPdfRun == PdfResult("none", <<>>, FALSE, FALSE)

\* extract_text_from_file (lines 63-91): [raised, text, pdf]. The existence
\* test of lines 76-77 raises outside the try; whatever is raised inside it
\* is caught at line 89 and gives "".
ExtractTextFromFile(file, env) ==
    LET file_ext == Lower(Suffix(file.path))
        pdf == ExtractFromPdf(file.pages, env)
    IN  IF ~file.exists THEN Extracted("FileNotFoundError", <<>>, NoPdfRun)
        ELSE IF file_ext = PdfExt
             THEN IF pdf.raised = "none"
                  THEN Extracted("none", pdf.text, pdf)
                  ELSE Extracted("none", <<>>, pdf)
             ELSE IF file_ext \in ImageExts
                  THEN Extracted("none",
                                 ExtractFromImage(file.path, file.pages, env),
                                 NoPdfRun)
                  ELSE IF file_ext \in ExcelExts
                       THEN Extracted("none", ExtractFromExcel(file.pages, env),
                                      NoPdfRun)
                       ELSE Extracted("none", <<>>, NoPdfRun)

(***************************************************************************)
(* parse_with_ai.  The model's answer is [call, fence, body]:              *)
(*   call  "ok", or "error" when generate_content or response.text raises; *)
(*   fence "none", "json" (```json ... ```) or "plain" (``` ... ```);      *)
(*   body  [t, items]: t = "invalid" (no JSON text), "object" (one JSON    *)
(*         object, items holds it) or "array" (items are its entries).     *)
(* An entry is [t, keys, line_item, amount]: t = "dict" with its keys and  *)
(* the two values, or "other" (a JSON string, number, null or array).      *)
(* Besides None, text and numbers a JSON value can be an integer beyond    *)
(* the range of float: [k |-> "big"], s holding its digits.                *)
(***************************************************************************)
Big == [k |-> "big", s |-> <<"1","0","0","0","0","0","0","0","0","0">>, n |-> 0]

Dict(keys, line_item, amount) ==
    [t |-> "dict", keys |-> keys, line_item |-> line_item, amount |-> amount]

NonDict == [t |-> "other", keys |-> {}, line_item |-> None, amount |-> None]

RECURSIVE NatText(_)
\* str(n) of a natural number.
NatText(n) ==
    IF n < 10 THEN <<Digits[n + 1]>>
    ELSE NatText(n \div 10) \o <<Digits[(n % 10) + 1]>>

\* str(v)
StrOf(v) ==
    IF v.k = "str" THEN v.s
    ELSE IF v.k = "none" THEN <<"N","o","n","e">>
         ELSE IF v.k = "num"
              THEN IF v.n < 0 THEN <<"-">> \o NatText(0 - v.n) ELSE NatText(v.n)
              ELSE v.s

\* The exception float(v) ends in, "none" when it returns.
FloatRaises(v) ==
    IF Float(v).ok THEN "none"
    ELSE IF v.k = "str" THEN "ValueError"
         ELSE IF v.k = "big" THEN "OverflowError" ELSE "TypeError"

\* Lines 204-207: the first pattern removes "```json" and the whitespace after
\* it, the second a "```" at the end; an opening "```" without "json" stays.
StripFences(fence) == IF fence = "plain" THEN "leading" ELSE "none"

\* json.loads of the cleaned text: [ok, value].
JsonLoads(fence, body) ==
    IF StripFences(fence) # "none" \/ body.t = "invalid"
    THEN [ok |-> FALSE, value |-> body]
    ELSE [ok |-> TRUE, value |-> body]

\* Lines 212-226, the loop over the parsed list: [exc, items]. ValueError and
\* TypeError of float() skip the entry; any other exception leaves the loop.
RECURSIVE ValidData(_)
ValidData(entries) ==
    IF Len(entries) = 0 THEN [exc |-> "none", items |-> <<>>]
    ELSE LET item == Head(entries)
             rest == ValidData(Tail(entries))
             raised == FloatRaises(item.amount)
         IN  IF item.t = "dict" /\ {"line_item", "amount"} \subseteq item.keys
             THEN IF raised = "none"
                  THEN [exc |-> rest.exc,
                        items |-> <<[line_item |-> Str(Strip(StrOf(item.line_item))),
                                     amount |-> Num(Float(item.amount).n)]>>
                                  \o rest.items]
                  ELSE IF raised \in {"ValueError", "TypeError"}
                       THEN rest
                       ELSE [exc |-> raised, items |-> <<>>]
             ELSE rest

\* What parse_with_ai gives. generate_content is called at line 201 and
\* nowhere else, outside any loop: one request when it was reached.
Parsed(items, asked) ==
    [items |-> items, raised |-> "none", asked |-> asked,
     requests |-> IF asked THEN 1 ELSE 0]

\* ParseWithAI that sends the request a second time when the call fails.
ParseWithAIRetrying(model, response) ==
    LET loaded == JsonLoads(response.fence, response.body)
        valid == ValidData(loaded.value.items)
    IN  IF ~model THEN Parsed(<<>>, FALSE)
        ELSE IF response.call = "error"
             THEN [Parsed(<<>>, TRUE) EXCEPT !.requests = 2]
             ELSE IF ~loaded.ok \/ loaded.value.t # "array" \/ valid.exc # "none"
                  THEN Parsed(<<>>, TRUE)
                  ELSE Parsed(valid.items, TRUE)

\* ParseWithAI that takes a single JSON object for a list of one entry.
ParseWithAILenient(model, response) ==
    LET loaded == JsonLoads(response.fence, response.body)
        valid == ValidData(loaded.value.items)
    IN  IF ~model THEN Parsed(<<>>, FALSE)
        ELSE IF response.call = "error" \/ ~loaded.ok THEN Parsed(<<>>, TRUE)
             ELSE Parsed(valid.items, TRUE)

\* parse_with_ai (lines 156-237): [items, raised, asked]; asked says whether
\* generate_content was called. Every exception of the try block is caught
\* at lines 231-237 and gives [].
ParseWithAI(model, response) ==
    LET loaded == JsonLoads(response.fence, response.body)
        valid == ValidData(loaded.value.items)
    IN  IF ~model THEN Parsed(<<>>, FALSE)
        ELSE IF response.call = "error" \/ ~loaded.ok THEN Parsed(<<>>, TRUE)
             ELSE IF loaded.value.t # "array" THEN Parsed(<<>>, TRUE)
                  ELSE IF valid.exc # "none" THEN Parsed(<<>>, TRUE)
                       ELSE Parsed(valid.items, TRUE)

(***************************************************************************)
(* process_document(input_file, template_path, output_path = None).        *)
(*                                                                         *)
(* input_file and output_path are text (output_path: None or Str(text));   *)
(* the file a text names is looked up by FileOf.  OtherPath stands for     *)
(* every file whose name is none of the listed ones.                       *)
(***************************************************************************)
OutputPathV2 == "COMPLETED_doc.v2_breakdown.xlsx"

CallerPath == "out/custom.xlsx"

OtherPath == "(other)"

DocPaths == Paths \cup {OutputPathV2, CallerPath, OtherPath}

\* The name of a file, as text.
PathText(p) ==
    CASE p = TemplatePath ->
            <<"t","e","m","p","l","a","t","e",".","x","l","s","x">>
      [] p = OutputPath ->
            <<"C","O","M","P","L","E","T","E","D","_","d","o","c",
              "_","b","r","e","a","k","d","o","w","n",".","x","l","s","x">>
      [] p = OutputPathV2 ->
            <<"C","O","M","P","L","E","T","E","D","_","d","o","c",".","v","2",
              "_","b","r","e","a","k","d","o","w","n",".","x","l","s","x">>
      [] p = ReadOnlyPath ->
            <<"/","r","e","a","d","o","n","l","y","/","o","u","t",".","x","l","s","x">>
      [] p = CallerPath ->
            <<"o","u","t","/","c","u","s","t","o","m",".","x","l","s","x">>
      [] OTHER -> <<>>

\* The file a path text names.
FileOf(text) ==
    IF \E p \in DocPaths \ {OtherPath} : PathText(p) = text
    THEN CHOOSE p \in DocPaths \ {OtherPath} : PathText(p) = text
    ELSE OtherPath

CompletedPrefix == <<"C","O","M","P","L","E","T","E","D","_">>

BreakdownSuffix == <<"_","b","r","e","a","k","d","o","w","n",".","x","l","s","x">>

\* Line 401: f"COMPLETED_{input_path.stem}_breakdown.xlsx"
DefaultOutputPath(input_file) ==
    CompletedPrefix \o Stem(input_file) \o BreakdownSuffix

\* The calls process_document made, in their order: lines 407, 417, 429.
ExtractStage == <<"extract_text_from_file">>

ParseStage == <<"parse_with_ai">>

PopulateStage == <<"populate_template">>

Processed(files, ret, raised, output_path, text, parsed, populated, stages) ==
    [fs |-> files, ret |-> ret, raised |-> raised, output_path |-> output_path,
     text |-> text, asked |-> parsed.asked, requests |-> parsed.requests,
     items |-> parsed.items, populated |-> populated, stages |-> stages]

\* The element of a set of one element: TheOne({F(x) : x \in {e}}) is F(e)
\* with e computed once.
TheOne(S) == CHOOSE x \in S : TRUE

\* Lines 386-434: the files afterwards, the return value (None or the output
\* path), the exception that escaped ("none": returned), and what the stages
\* did: the extracted text, whether the AI was asked and how often, the line
\* items, whether populate_template was called, and the calls in their order.
ProcessDocument(files, file, template_path, output_path, env, model, response, io) ==
    LET \* lines 428-434
        Step3(out_text, text, parsed, populated) ==
            Processed(populated.fs,
                      IF populated.ret THEN Str(out_text) ELSE None,
                      "none", out_text, text, parsed, TRUE,
                      ExtractStage \o ParseStage \o PopulateStage)
        \* lines 417-429
        Step2(out_text, text, parsed) ==
            IF Len(parsed.items) = 0
            THEN Processed(files, None, "none", out_text, text, parsed, FALSE,
                           ExtractStage \o ParseStage)
            ELSE TheOne({Step3(out_text, text, parsed, populated) :
                            populated \in
                                {PopulateTemplate(files, parsed.items,
                                                  template_path,
                                                  FileOf(out_text), io)}})
        \* lines 407-415
        Step1(out_text, extracted) ==
            IF extracted.raised # "none"
            THEN Processed(files, None, extracted.raised, out_text, <<>>,
                           Parsed(<<>>, FALSE), FALSE, ExtractStage)
            ELSE IF Len(Strip(extracted.text)) = 0
                 THEN Processed(files, None, "none", out_text, extracted.text,
                                Parsed(<<>>, FALSE), FALSE, ExtractStage)
                 ELSE TheOne({Step2(out_text, extracted.text, parsed) :
                                 parsed \in {ParseWithAI(model, response)}})
    IN  TheOne({Step1(out_text, extracted) :
                   out_text \in {IF output_path.k = "none"
                                 THEN DefaultOutputPath(file.path)
                                 ELSE output_path.s},
                   extracted \in {ExtractTextFromFile(file, env)}})

(***************************************************************************)
(* src/streamlit_app.py: the batch loops.  An uploaded file is             *)
(* [name, pages]; what happens while one document is handled is a record   *)
(* cond = [env, model, response, io, temp_fault, submitted, rows]:         *)
(* temp_fault says that the temporary copy cannot be written, submitted    *)
(* that the document's form was submitted, rows are the rows of the form,  *)
(* [line_item: text, amount: number >= 0].                                 *)
(***************************************************************************)
TempDir == <<"/","t","m","p","/","t","m","p">>

\* NamedTemporaryFile(delete=False, suffix=Path(name).suffix): the copy exists
\* and has the upload's suffix and content.
TempFile(uploaded_file) ==
    [path |-> TempDir \o Suffix(uploaded_file.name), exists |-> TRUE,
     pages |-> uploaded_file.pages]

\* os.path.exists(path)
Exists(files, text) == files[FileOf(text)].kind # "missing"

\* What the handling of one uploaded file gave: the files, the entry's path
\* (None: no entry), the exception that left it, and the list handed to
\* populate_template (populated says whether it was called).
Single(files, result_path, raised, populated, line_items) ==
    [fs |-> files, result_path |-> result_path, raised |-> raised,
     populated |-> populated, line_items |-> line_items]

\* ProcessSingleFile without the handler of lines 297-299: what is raised
\* leaves the function.
ProcessSingleFileUncaught(files, uploaded_file, template_path, cond) ==
    LET Returned(doc) ==
            IF doc.raised # "none"
            THEN Single(doc.fs, None, doc.raised, FALSE, <<>>)
            ELSE IF Truthy(doc.ret) /\ Exists(doc.fs, doc.ret.s)
                 THEN Single(doc.fs, doc.ret, "none", doc.populated, doc.items)
                 ELSE Single(doc.fs, None, "none", doc.populated, doc.items)
    IN  IF cond.temp_fault THEN Single(files, None, "OSError", FALSE, <<>>)
        ELSE TheOne({Returned(doc) :
                        doc \in {ProcessDocument(
                                    files, TempFile(uploaded_file), template_path,
                                    Str(DefaultOutputPath(uploaded_file.name)),
                                    cond.env, cond.model, cond.response,
                                    cond.io)}})

\* process_single_file (lines 274-299): [fs, result_path, raised]. The whole
\* body is in one try whose handler returns (None, None).
ProcessSingleFile(files, uploaded_file, template_path, cond) ==
    LET Returned(doc) ==
            IF doc.raised # "none"
            THEN Single(doc.fs, None, "none", FALSE, <<>>)
            ELSE IF Truthy(doc.ret) /\ Exists(doc.fs, doc.ret.s)
                 THEN Single(doc.fs, doc.ret, "none", doc.populated, doc.items)
                 ELSE Single(doc.fs, None, "none", doc.populated, doc.items)
    IN  IF cond.temp_fault THEN Single(files, None, "none", FALSE, <<>>)
        ELSE TheOne({Returned(doc) :
                        doc \in {ProcessDocument(
                                    files, TempFile(uploaded_file), template_path,
                                    Str(DefaultOutputPath(uploaded_file.name)),
                                    cond.env, cond.model, cond.response,
                                    cond.io)}})

RECURSIVE ManualDataUnfiltered(_)
\* ManualData without the test of line 358: every row of the form is kept.
ManualDataUnfiltered(rows) ==
    IF Len(rows) = 0 THEN <<>>
    ELSE <<[line_item |-> Str(Strip(Head(rows).line_item)),
            amount |-> Num(Head(rows).amount)]>>
         \o ManualDataUnfiltered(Tail(rows))

RECURSIVE ManualData(_)
\* Lines 349-358: the rows with a description and an amount above 0.
ManualData(rows) ==
    IF Len(rows) = 0 THEN <<>>
    ELSE IF Len(Strip(Head(rows).line_item)) > 0 /\ Head(rows).amount > 0
         THEN <<[line_item |-> Str(Strip(Head(rows).line_item)),
                 amount |-> Num(Head(rows).amount)]>>
              \o ManualData(Tail(rows))
         ELSE ManualData(Tail(rows))

\* The body of the loop of process_documents_manual_mode for one file (lines
\* 315-407): [fs, result_path, raised]. The handler of line 391 catches what
\* the body raises.
ManualSingleFile(files, uploaded_file, template_path, cond) ==
    LET \* lines 361-389
        Submitted(output_filename, manual_data, populated) ==
            IF populated.ret /\ Exists(populated.fs, output_filename)
            THEN Single(populated.fs, Str(output_filename), "none", TRUE,
                        manual_data)
            ELSE Single(populated.fs, None, "none", TRUE, manual_data)
        \* lines 326-389
        Form(extracted, manual_data) ==
            IF extracted.raised # "none"
            THEN Single(files, None, "none", FALSE, <<>>)
            ELSE IF Len(Strip(extracted.text)) = 0 \/ ~cond.submitted
                    \/ Len(manual_data) = 0
                 THEN Single(files, None, "none", FALSE, <<>>)
                 ELSE TheOne({Submitted(output_filename, manual_data, populated) :
                                 output_filename \in
                                     {DefaultOutputPath(uploaded_file.name)},
                                 populated \in
                                     {PopulateTemplate(
                                        files, manual_data, template_path,
                                        FileOf(DefaultOutputPath(uploaded_file.name)),
                                        cond.io)}})
    IN  IF cond.temp_fault THEN Single(files, None, "none", FALSE, <<>>)
        ELSE TheOne({Form(extracted, manual_data) :
                        extracted \in
                            {ExtractTextFromFile(TempFile(uploaded_file),
                                                 cond.env)},
                        manual_data \in {ManualData(cond.rows)}})

(***************************************************************************)
(* Inputs.                                                                 *)
(***************************************************************************)
Permits == [line_item |-> Str(<<"P","E","R","M","I","T","S">>), amount |-> Num(10000)]

Excavation ==
    [line_item |-> Str(<<"E","X","C","A","V","A","T","I","O","N">>),
     amount |-> Num(15000)]

Foundation ==
    [line_item |-> Str(<<"F","O","U","N","D","A","T","I","O","N">>),
     amount |-> Num(38000)]

Framing == [line_item |-> Str(<<"F","R","A","M","I","N","G">>), amount |-> Num(0)]

Catalogue == <<Permits, Excavation, Foundation, Framing>>

\* Items populate_template cannot write: an amount float() rejects, and an
\* amount given as text, which float() takes and the progress line rejects.
NotANumber == [line_item |-> Str(<<"X">>), amount |-> Str(<<"N","/","A">>)]

TextAmount == [line_item |-> Str(<<"X">>), amount |-> Str(<<"1","2","5">>)]

NoAmount == [line_item |-> Str(<<"X">>), amount |-> None]

BadItems == {NotANumber, TextAmount, NoAmount}

GoodItemLists == {SubSeq(Catalogue, 1, n) : n \in 0..MaxItems}

\* A good list whose k-th item is replaced by a bad one.
BadItemLists ==
    {[i \in 1..n |-> IF i = k THEN bad ELSE Catalogue[i]] :
        n \in 1..MaxItems, k \in 1..MaxItems, bad \in BadItems}

ItemLists == GoodItemLists \cup BadItemLists

IoOutcomes == {"none", "denied", "partial"}

UpperLineItems == <<"L","I","N","E"," ","I","T","E","M","S">>

ItemPerLine == <<"I","T","E","M"," ","/"," ","L","I","N","E">>

AmountText == <<"A","m","o","u","n","t">>

TotalText == <<"T","O","T","A","L">>

BlankText == <<" ", " ">>

\* One cell at (row, col).
Cell1(row, col, v) == [x \in {<<row, col>>} |-> v]

\* Two cells.
Cell2(r1, c1, v1, r2, c2, v2) ==
    [x \in {<<r1, c1>>, <<r2, c2>>} |-> IF x = <<r1, c1>> THEN v1 ELSE v2]

\* The templates of the file-level specification.
HeaderOnly == Cell1(1, 1, Str(LineItemText))

HeaderAndTotal == Cell2(1, 1, Str(LineItemText), 3, 1, Str(TotalText))

HeaderInB == Cell2(1, 2, Str(LineItemText), 1, 3, Str(AmountText))

HeaderAndBlank == Cell2(2, 1, Str(UpperLineItems), 3, 1, Str(BlankText))

NoHeader == Cell2(1, 1, Str(TotalText), 2, 2, Num(7))

SmallTemplates ==
    {NoCells, HeaderOnly, HeaderAndTotal, HeaderInB, HeaderAndBlank, NoHeader}

\* The templates of the layout specification: at most two valued cells, in
\* rows and columns on both sides of every boundary the scans draw (row 10,
\* columns 2, 5 and 10).
LayoutRows == {1, 2, 3, 10, 11}

LayoutCols == {1, 2, 3, 5, 6, 10, 11}

LayoutValues ==
    {Str(LineItemText), Str(ItemPerLine), Str(AmountText), Str(BlankText),
     Num(7)}

Positions == LayoutRows \X LayoutCols

Before(p, q) == p[1] < q[1] \/ (p[1] = q[1] /\ p[2] < q[2])

LayoutTemplates ==
    {NoCells}
    \cup {Cell1(p[1], p[2], v) : p \in Positions, v \in LayoutValues}
    \cup {Cell2(pq[1][1], pq[1][2], vw[1], pq[2][1], pq[2][2], vw[2]) :
            pq \in {x \in Positions \X Positions : Before(x[1], x[2])},
            vw \in LayoutValues \X LayoutValues}

(***************************************************************************)
(* Inputs of the document stages.                                          *)
(***************************************************************************)
MaxEntries == 2

InvoiceText == <<"P","E","R","M","I","T","S"," ","1","0","0","0","0">>

PageLists == {<<>>, <<BlankText>>, <<InvoiceText>>, <<InvoiceText, BlankText>>}

DocPdf == <<"d","o","c",".","p","d","f">>

DocV2Pdf == <<"i","n","/","d","o","c",".","v","2",".","P","D","F">>

ScanPng == <<"s","c","a","n",".","p","n","g">>

DocXlsx == <<"d","o","c",".","x","l","s","x">>

DocTxt == <<"d","o","c",".","t","x","t">>

DocNoSuffix == <<"d","o","c">>

DotPdf == <<".","p","d","f">>

InputPaths == {DocPdf, DocV2Pdf, ScanPng, DocXlsx, DocTxt, DocNoSuffix, DotPdf}

InputFiles == [path : InputPaths, exists : BOOLEAN, pages : PageLists]

Faults == {"none", "open", "page"}

Envs ==
    [pymupdf : BOOLEAN, pypdf2 : BOOLEAN, tesseract : BOOLEAN,
     primary_fault : Faults, secondary_fault : Faults,
     ocr_fault : BOOLEAN, excel_fault : BOOLEAN]

BothKeys == {"line_item", "amount"}

\* A description with spaces around it and the amount as text.
PaddedEntry ==
    Dict(BothKeys, Str(<<" ","E","X","C","A","V","A","T","I","O","N"," ">>),
         Str(<<"1","5","0","0","0">>))

Entries ==
    {Dict(BothKeys, Permits.line_item, Permits.amount),
     PaddedEntry,
     Dict(BothKeys, Str(<<"X">>), Str(<<"N","/","A">>)),
     Dict(BothKeys, Str(<<"X">>), None),
     Dict(BothKeys, Str(<<"X">>), Big),
     Dict(BothKeys, Str(<<"C","R","E","D","I","T">>), Num(0 - 500)),
     Dict(BothKeys, Str(BlankText), Num(100)),
     Dict({"line_item"}, Str(<<"X">>), None),
     NonDict}

EntryLists == UNION {[1..n -> Entries] : n \in 0..MaxEntries}

Bodies ==
    {[t |-> "invalid", items |-> <<>>]}
    \cup {[t |-> "object", items |-> <<e>>] : e \in {x \in Entries : x.t = "dict"}}
    \cup {[t |-> "array", items |-> list] : list \in EntryLists}

Fences == {"none", "json", "plain"}

Responses == [call : {"ok", "error"}, fence : Fences, body : Bodies]

(***************************************************************************)
(* State: the files, and of the last call of populate_template its         *)
(* arguments, the files before it and what it returned and printed.        *)
(* extraction, parsing and document hold the last call of                  *)
(* extract_text_from_file, parse_with_ai and process_document with its     *)
(* inputs; session is the state of the web application.                    *)
(***************************************************************************)
NoFile == [path |-> <<>>, exists |-> FALSE, pages |-> <<>>]

NoEnv ==
    [pymupdf |-> FALSE, pypdf2 |-> FALSE, tesseract |-> FALSE,
     primary_fault |-> "none", secondary_fault |-> "none",
     ocr_fault |-> FALSE, excel_fault |-> FALSE]

NoResponse ==
    [call |-> "error", fence |-> "none",
     body |-> [t |-> "invalid", items |-> <<>>]]

NoExtraction ==
    [done |-> FALSE, file |-> NoFile, env |-> NoEnv,
     out |-> Extracted("none", <<>>, NoPdfRun)]

NoParsing ==
    [done |-> FALSE, model |-> FALSE, response |-> NoResponse,
     out |-> Parsed(<<>>, FALSE)]

NoDocument ==
    [done |-> FALSE, file |-> NoFile, template_path |-> TemplatePath,
     output_path |-> None, env |-> NoEnv, model |-> FALSE,
     response |-> NoResponse, io |-> "none",
     out |-> [ret |-> None, raised |-> "none", output_path |-> <<>>,
              text |-> <<>>, asked |-> FALSE, requests |-> 0,
              items |-> <<>>, populated |-> FALSE, stages |-> <<>>]]

\* mode: "idle", "ai" or "manual" while a batch loop runs, "done" when it
\* returned, "aborted" when an exception left it. i counts the files the loop
\* has handled, visited logs them: [index, name, mode, result_path,
\* populated, line_items], the last two telling whether populate_template was
\* called for the file and with which list.
\* processed_files is the loop's local list, state_processed_files is
\* st.session_state.processed_files; an entry is <<path, uploaded name>>.
NoSession ==
    [mode |-> "idle", uploaded_files |-> <<>>, i |-> 0,
     processed_files |-> <<>>, state_processed_files |-> <<>>,
     visited |-> <<>>, runs |-> 0]

NoArgs ==
    [line_items |-> <<>>, template_path |-> TemplatePath,
     output_path |-> OutputPath, io |-> "none"]

NoResult ==
    [ret |-> FALSE, line_item_col_idx |-> 0, header_row |-> 0,
     start_row |-> 0, insert_row |-> 0]

Start(files) ==
    /\ fs = files
    /\ pre = files
    /\ args = NoArgs
    /\ result = NoResult
    /\ returned = FALSE
    /\ calls = 0
    /\ extraction = NoExtraction
    /\ parsing = NoParsing
    /\ document = NoDocument
    /\ session = NoSession

Init ==
    \E t \in {Xlsx(c) : c \in SmallTemplates} \cup {Missing, Garbage},
       o \in {Missing, Xlsx(NoHeader)} :
        Start([p \in Paths |->
                 IF p = TemplatePath THEN t
                 ELSE IF p = OutputPath THEN o ELSE Missing])

LayoutInit ==
    \E c \in LayoutTemplates :
        Start([p \in Paths |-> IF p = TemplatePath THEN Xlsx(c) ELSE Missing])

\* A caller runs populate_template(line_items, template_path, output_path).
Populate(line_items, template_path, output_path, io) ==
    LET out == PopulateTemplate(fs, line_items, template_path, output_path, io)
    IN  /\ ~returned
        /\ fs' = out.fs
        /\ pre' = fs
        /\ args' = [line_items |-> line_items, template_path |-> template_path,
                    output_path |-> output_path, io |-> io]
        /\ result' = [ret |-> out.ret,
                      line_item_col_idx |-> out.line_item_col_idx,
                      header_row |-> out.header_row,
                      start_row |-> out.start_row,
                      insert_row |-> out.insert_row]
        /\ returned' = TRUE
        /\ calls' = calls + 1
        /\ UNCHANGED <<extraction, parsing, document, session>>

\* The caller has used the return value and goes on; the files stay.
Continue ==
    /\ returned
    /\ calls < MaxCalls
    /\ pre' = fs
    /\ args' = NoArgs
    /\ result' = NoResult
    /\ returned' = FALSE
    /\ UNCHANGED <<fs, calls, extraction, parsing, document, session>>

Next ==
    \/ \E line_items \in ItemLists, template_path \in Paths,
          output_path \in Paths, io \in IoOutcomes :
            Populate(line_items, template_path, output_path, io)
    \/ Continue

Spec == Init /\ [][Next]_vars

LayoutNext ==
    \E line_items \in GoodItemLists :
        Populate(line_items, TemplatePath, OutputPath, "none")

LayoutSpec == LayoutInit /\ [][LayoutNext]_vars

(***************************************************************************)
(* The stages of a document, one call each.                                *)
(***************************************************************************)
NoFiles == [p \in DocPaths |-> Missing]

\* A caller runs extract_text_from_file(file_path).
Extract(file, env) ==
    /\ ~extraction.done
    /\ extraction' = [done |-> TRUE, file |-> file, env |-> env,
                      out |-> ExtractTextFromFile(file, env)]
    /\ UNCHANGED <<fs, pre, args, result, returned, calls, parsing, document,
                   session>>

ExtractInit == Start(NoFiles)

ExtractNext == \E file \in InputFiles, env \in Envs : Extract(file, env)

ExtractSpec == ExtractInit /\ [][ExtractNext]_vars

\* A caller runs parse_with_ai(text_content); model says whether self.model
\* is set, response is what the model answers.
Parse(model, response) ==
    /\ ~parsing.done
    /\ parsing' = [done |-> TRUE, model |-> model, response |-> response,
                   out |-> ParseWithAI(model, response)]
    /\ UNCHANGED <<fs, pre, args, result, returned, calls, extraction,
                   document, session>>

ParseInit == Start(NoFiles)

ParseNext == \E model \in BOOLEAN, response \in Responses : Parse(model, response)

ParseSpec == ParseInit /\ [][ParseNext]_vars

\* The inputs of process_document: each supported and one unsupported type,
\* with and without text, and two files that are not there.
DocFiles ==
    {[path |-> p, exists |-> TRUE, pages |-> pages] :
        p \in {DocPdf, DocV2Pdf, ScanPng, DocXlsx, DocTxt},
        pages \in {<<BlankText>>, <<InvoiceText>>}}
    \cup {[path |-> p, exists |-> FALSE, pages |-> <<>>] : p \in {DocPdf, DocTxt}}

AllWorking ==
    [pymupdf |-> TRUE, pypdf2 |-> TRUE, tesseract |-> TRUE,
     primary_fault |-> "none", secondary_fault |-> "none",
     ocr_fault |-> FALSE, excel_fault |-> FALSE]

PrimaryBroken == [AllWorking EXCEPT !.primary_fault = "open"]

DocEnvs == {AllWorking, PrimaryBroken, NoEnv}

Answer(call, fence, t, items) ==
    [call |-> call, fence |-> fence, body |-> [t |-> t, items |-> items]]

PermitsEntry == Dict(BothKeys, Permits.line_item, Permits.amount)

DocResponses ==
    {Answer("error", "none", "invalid", <<>>),
     Answer("ok", "none", "invalid", <<>>),
     Answer("ok", "none", "array", <<>>),
     Answer("ok", "json", "array", <<PermitsEntry, PaddedEntry>>),
     Answer("ok", "none", "array",
            <<PermitsEntry, Dict(BothKeys, Str(<<"X">>), Str(<<"N","/","A">>))>>)}

OutputPathArgs ==
    {None, Str(PathText(CallerPath)), Str(PathText(ReadOnlyPath))}

\* A caller runs process_document(input_file, template_path, output_path).
Process(file, template_path, output_path, env, model, response, io) ==
    /\ ~document.done
    /\ \E out \in {ProcessDocument(fs, file, template_path, output_path, env,
                                   model, response, io)} :
        /\ fs' = out.fs
        /\ pre' = fs
        /\ document' =
              [done |-> TRUE, file |-> file, template_path |-> template_path,
               output_path |-> output_path, env |-> env, model |-> model,
               response |-> response, io |-> io,
               out |-> [ret |-> out.ret, raised |-> out.raised,
                        output_path |-> out.output_path, text |-> out.text,
                        asked |-> out.asked, requests |-> out.requests,
                        items |-> out.items, populated |-> out.populated,
                        stages |-> out.stages]]
        /\ UNCHANGED <<args, result, returned, calls, extraction, parsing,
                       session>>

DocInit ==
    \E t \in {Xlsx(HeaderOnly), Xlsx(HeaderAndTotal), Missing, Garbage},
       o \in {Missing, Xlsx(NoHeader)} :
        Start([p \in DocPaths |->
                 IF p = TemplatePath THEN t
                 ELSE IF p \in {OutputPath, OutputPathV2, CallerPath} THEN o
                      ELSE Missing])

DocNext ==
    \E file \in DocFiles, output_path \in OutputPathArgs, env \in DocEnvs,
       model \in BOOLEAN, response \in DocResponses, io \in IoOutcomes :
        Process(file, TemplatePath, output_path, env, model, response, io)

DocSpec == DocInit /\ [][DocNext]_vars

(***************************************************************************)
(* The web application: "Process Documents" runs one of the two batch      *)
(* loops over the uploaded files, one file per step.                       *)
(***************************************************************************)
MaxRuns == 2
MaxUploads == 2

Uploads ==
    {[name |-> name, pages |-> <<InvoiceText>>] :
        name \in {DocPdf, DocXlsx}}

UploadLists == UNION {[1..n -> Uploads] : n \in 1..MaxUploads}

FormRows ==
    <<[line_item |-> <<" ","P","E","R","M","I","T","S">>, amount |-> 10000],
      [line_item |-> BlankText, amount |-> 5],
      [line_item |-> <<"F","R","A","M","I","N","G">>, amount |-> 0]>>

\* Everything works; the answer (the form) holds line items.
Fine ==
    [env |-> AllWorking, model |-> TRUE,
     response |-> Answer("ok", "json", "array", <<PermitsEntry, PaddedEntry>>),
     io |-> "none", temp_fault |-> FALSE, submitted |-> TRUE, rows |-> FormRows]

\* Everything works for a document with other line items.
FineToo ==
    [Fine EXCEPT
        !.response = Answer("ok", "none", "array",
                            <<Dict(BothKeys, Foundation.line_item,
                                   Foundation.amount)>>),
        !.rows = <<[line_item |-> <<"F","R","A","M","I","N","G">>,
                    amount |-> 7]>>]

\* What can go wrong with one document: no text, no usable answer (no usable
\* row), a save that breaks off, no temporary copy; and a form left alone.
Conditions ==
    {Fine, FineToo,
     [Fine EXCEPT !.env = [AllWorking EXCEPT !.primary_fault = "open",
                                             !.excel_fault = TRUE]],
     [Fine EXCEPT !.response = Answer("ok", "none", "invalid", <<>>),
                  !.rows = <<FormRows[2], FormRows[3]>>],
     [Fine EXCEPT !.io = "partial"],
     [Fine EXCEPT !.temp_fault = TRUE],
     [Fine EXCEPT !.submitted = FALSE]}

\* main, lines 561-586: the button is pressed with files and a template.
StartBatch(mode, uploaded_files) ==
    /\ session.mode \in {"idle", "done", "aborted"}
    /\ session.runs < MaxRuns
    /\ session' = [session EXCEPT !.mode = mode,
                                  !.uploaded_files = uploaded_files,
                                  !.i = 0,
                                  !.processed_files = <<>>,
                                  !.visited = <<>>,
                                  !.runs = @ + 1]
    /\ UNCHANGED <<fs, pre, args, result, returned, calls, extraction,
                   parsing, document>>

\* One iteration of either loop with what the file's handling gave: an
\* exception ends the loop, else the result is recorded when there is one.
Iteration(single) ==
    LET uploaded_file == session.uploaded_files[session.i + 1]
        seen == Append(session.visited,
                       [index |-> session.i + 1, name |-> uploaded_file.name,
                        mode |-> session.mode,
                        result_path |-> single.result_path,
                        populated |-> single.populated,
                        line_items |-> single.line_items])
    IN  /\ fs' = single.fs
        /\ pre' = fs
        /\ session' =
              IF single.raised # "none"
              THEN [session EXCEPT !.mode = "aborted"]
              ELSE [session EXCEPT
                      !.i = @ + 1,
                      !.visited = seen,
                      !.processed_files =
                          IF single.result_path # None
                          THEN Append(@, <<single.result_path.s, uploaded_file.name>>)
                          ELSE @]
        /\ UNCHANGED <<args, result, returned, calls, extraction, parsing,
                       document>>

\* process_documents, lines 656-668: the next uploaded file.
ProcessNextFile(cond) ==
    /\ session.mode = "ai"
    /\ session.i < Len(session.uploaded_files)
    /\ \E single \in {ProcessSingleFile(fs, session.uploaded_files[session.i + 1],
                                        TemplatePath, cond)} :
          Iteration(single)

\* process_documents, line 670, after the loop.
FinishBatch ==
    /\ session.mode = "ai"
    /\ session.i = Len(session.uploaded_files)
    /\ session' = [session EXCEPT !.mode = "done",
                                  !.state_processed_files = session.processed_files]
    /\ UNCHANGED <<fs, pre, args, result, returned, calls, extraction,
                   parsing, document>>

\* process_documents_manual_mode, lines 315-407: the next uploaded file.
ManualNextFile(cond) ==
    /\ session.mode = "manual"
    /\ session.i < Len(session.uploaded_files)
    /\ \E single \in {ManualSingleFile(fs, session.uploaded_files[session.i + 1],
                                       TemplatePath, cond)} :
          Iteration(single)

\* process_documents_manual_mode, line 411, after the loop.
FinishManual ==
    /\ session.mode = "manual"
    /\ session.i = Len(session.uploaded_files)
    /\ session' = [session EXCEPT !.mode = "done",
                                  !.state_processed_files = @ \o session.processed_files]
    /\ UNCHANGED <<fs, pre, args, result, returned, calls, extraction,
                   parsing, document>>

\* main, lines 643-646: "Clear Results", shown while the list holds entries.
ClearResults ==
    /\ session.mode \in {"idle", "done", "aborted"}
    /\ session.state_processed_files # <<>>
    /\ session' = [session EXCEPT !.state_processed_files = <<>>]
    /\ UNCHANGED <<fs, pre, args, result, returned, calls, extraction,
                   parsing, document>>

BatchInit ==
    Start([p \in DocPaths |->
             IF p = TemplatePath THEN Xlsx(HeaderOnly) ELSE Missing])

BatchNext ==
    \/ \E mode \in {"ai", "manual"}, uploaded_files \in UploadLists :
          StartBatch(mode, uploaded_files)
    \/ \E cond \in Conditions : ProcessNextFile(cond)
    \/ FinishBatch
    \/ \E cond \in Conditions : ManualNextFile(cond)
    \/ FinishManual
    \/ ClearResults

BatchSpec == BatchInit /\ [][BatchNext]_vars

(***************************************************************************)
(* Properties.  They read the last call: the template sheet and the output *)
(* sheet as stored, and the locals the call printed.                       *)
(***************************************************************************)
Succeeded == returned /\ result.ret

Tpl == pre[args.template_path].cells

Out == fs[args.output_path].cells

Items == args.line_items

\* 0-based item i of the call sits in row RowOf(i).
RowOf(i) == result.insert_row + i

BlankCell(v) ==
    v.k = "none" \/ (v.k = "str" /\ \A i \in 1..Len(v.s) : v.s[i] \in Whitespace)

HasText(v, text) == v.k = "str" /\ Contains(v.s, text)

\* The cells of the 10 x 10 block holding the exact text.
ExactCells(cells) ==
    {x \in DOMAIN cells :
        x[1] <= 10 /\ x[2] <= 10 /\ HasText(cells[x], LineItemText)}

\* The cells holding "line" and "item" in any case, in rows 1..10 and
\* columns 1..maxcol.
LooseCells(cells, maxcol) ==
    {x \in DOMAIN cells :
        /\ x[1] <= 10
        /\ x[2] <= maxcol
        /\ cells[x].k = "str"
        /\ Contains(Lower(cells[x].s), LineText)
        /\ Contains(Lower(cells[x].s), ItemText)}

\* x is the first cell of S in row-major order.
FirstRowMajor(x, S) == x \in S /\ \A y \in S : ~Before(y, x)

Header == <<result.header_row, result.line_item_col_idx>>

\* C1: every amount lands in column 2 of its item's row, and a cell outside
\* column 2 that the call changed holds its row's description, in the
\* description column: no amount is written anywhere but column 2.
C1_AmountOnlyInColumnTwo ==
    Succeeded =>
        /\ \A i \in 0..(Len(Items) - 1) :
              At(Out, RowOf(i), 2) = Num(Items[i + 1].amount.n)
        /\ \A x \in (DOMAIN Out) \cup (DOMAIN Tpl) :
              (x[2] # 2 /\ At(Out, x[1], x[2]) # At(Tpl, x[1], x[2])) =>
                  /\ x[2] = result.line_item_col_idx
                  /\ x[1] - result.insert_row \in 0..(Len(Items) - 1)
                  /\ At(Out, x[1], x[2]) = Items[x[1] - result.insert_row + 1].line_item

\* An "Amount" header in column 3 beside the description header, two items
\* written.
C1_Witness ==
    /\ Succeeded
    /\ Len(Items) = 2
    /\ At(Tpl, 1, 1) = Str(LineItemText)
    /\ At(Tpl, 1, 3) = Str(AmountText)
    /\ At(Out, 2, 2) = Num(10000)
    /\ At(Out, 3, 3) = None

\* C2: when a cell of rows 1..10, columns 1..10 holds the exact text, the
\* header row and the description column are those of the first such cell in
\* row-major order.
C2_FirstExactMatchWins ==
    (Succeeded /\ ExactCells(Tpl) # {}) => FirstRowMajor(Header, ExactCells(Tpl))

\* Two exact cells, the upper one further right: row-major and column-major
\* order disagree.
C2_Witness ==
    /\ Succeeded
    /\ \E x \in ExactCells(Tpl), y \in ExactCells(Tpl) :
          x[1] < y[1] /\ x[2] > y[2] /\ Header = x

\* C3: with no exact cell in the block, the header is the first cell in
\* row-major order of rows 1..10, columns 1..5 holding "line" and "item" in any
\* case; a cell of columns 6..10 is never selected.
C3_FallbackFirstFiveColumns ==
    (Succeeded /\ ExactCells(Tpl) = {}) =>
        /\ LooseCells(Tpl, 5) # {} => FirstRowMajor(Header, LooseCells(Tpl, 5))
        /\ result.header_row # 0 => Header \in LooseCells(Tpl, 5)

\* A case-insensitive match in columns 6..10 comes first in row-major order
\* and the later one in columns 1..5 is taken.
C3_Witness ==
    /\ Succeeded
    /\ ExactCells(Tpl) = {}
    /\ \E x \in LooseCells(Tpl, 10), y \in LooseCells(Tpl, 5) :
          x[2] > 5 /\ Before(x, y) /\ Header = y

\* C4: when neither scan matches, the description column is 1, no header row
\* is recorded and the search for the insertion row starts at row 2.
C4_DefaultColumnOne ==
    (Succeeded /\ ExactCells(Tpl) = {} /\ LooseCells(Tpl, 5) = {}) =>
        /\ result.line_item_col_idx = 1
        /\ result.header_row = 0
        /\ result.start_row = 2
        /\ result.insert_row >= 2
        /\ \A r \in 2..(result.insert_row - 1) : ~BlankCell(At(Tpl, r, 1))

\* No header and an empty A1: a search from row 1 would insert there.
C4_Witness ==
    /\ Succeeded
    /\ ExactCells(Tpl) = {}
    /\ LooseCells(Tpl, 5) = {}
    /\ LooseCells(Tpl, 10) # {}
    /\ BlankCell(At(Tpl, 1, 1))
    /\ result.insert_row = 2

MaxPopulatedRow(cells) == IF DOMAIN cells = {} THEN 1 ELSE SetMax(RowsOf(cells))

ClaimedStartRow == IF result.header_row # 0 THEN result.header_row + 1 ELSE 2

\* C5: the insertion row is the first row from the start row down whose
\* description cell is empty or whitespace-only; and if there is none up to
\* (max populated row + 20), it is (max populated row + 1).
C5_InsertAtFirstEmptyRow ==
    Succeeded =>
        LET col == result.line_item_col_idx
            empty == {r \in ClaimedStartRow..(MaxPopulatedRow(Tpl) + 20) :
                         BlankCell(At(Tpl, r, col))}
        IN  /\ empty # {} =>
                /\ result.insert_row \in empty
                /\ \A r \in empty : result.insert_row <= r
            /\ empty = {} => result.insert_row = MaxPopulatedRow(Tpl) + 1

\* A whitespace-only description cell right under the header is the insertion
\* row.
C5_Witness ==
    /\ Succeeded
    /\ result.header_row # 0
    /\ At(Tpl, result.header_row + 1, result.line_item_col_idx) = Str(BlankText)
    /\ result.insert_row = result.header_row + 1

\* C6: after a successful call item i's description is in (R + i, description
\* column) and its amount, as a number, in (R + i, 2), whichever column was
\* discovered.
C6_DescriptionAndAmountWritten ==
    Succeeded =>
        \A i \in 0..(Len(Items) - 1) :
            /\ At(Out, RowOf(i), result.line_item_col_idx) = Items[i + 1].line_item
            /\ At(Out, RowOf(i), 2) = Num(Items[i + 1].amount.n)

\* C7: a successful call overwrites no populated cell of the template.
C7_NoPopulatedCellOverwritten ==
    Succeeded =>
        \A x \in DOMAIN Tpl :
            ~BlankCell(Tpl[x]) => At(Out, x[1], x[2]) = Tpl[x]

\* C8: the template holding only "Line Item" in A1, populated with PERMITS
\* 10000.00 and EXCAVATION 15000.00, gives A2 = "PERMITS", B2 = 10000,
\* A3 = "EXCAVATION", B3 = 15000 and leaves A1 as it was.
C8_EndToEnd ==
    (/\ Succeeded
     /\ Tpl = Cell1(1, 1, Str(<<"L","i","n","e"," ","I","t","e","m">>))
     /\ Len(Items) = 2
     /\ Items[1] = [line_item |-> Str(<<"P","E","R","M","I","T","S">>),
                    amount |-> Num(10000)]
     /\ Items[2] = [line_item |-> Str(<<"E","X","C","A","V","A","T","I","O","N">>),
                    amount |-> Num(15000)])
    => /\ At(Out, 2, 1) = Str(<<"P","E","R","M","I","T","S">>)
       /\ At(Out, 2, 2) = Num(10000)
       /\ At(Out, 3, 1) = Str(<<"E","X","C","A","V","A","T","I","O","N">>)
       /\ At(Out, 3, 2) = Num(15000)
       /\ At(Out, 1, 1) = Str(<<"L","i","n","e"," ","I","t","e","m">>)
       /\ DOMAIN Out = {<<1, 1>>, <<2, 1>>, <<2, 2>>, <<3, 1>>, <<3, 2>>}

\* The scenario has run: header-only template, the two items, success.
C8_Witness ==
    /\ Succeeded
    /\ Tpl = HeaderOnly
    /\ Items = <<Permits, Excavation>>
    /\ fs[args.output_path].kind = "xlsx"

C10_TemplateNeverMutated ==
    returned => fs[args.template_path] = pre[args.template_path]

\* A call whose output path is the template path, with items to write.
C10_Witness ==
    /\ returned
    /\ args.output_path = args.template_path
    /\ pre[args.template_path].kind = "xlsx"
    /\ Len(Items) > 0
    /\ ~result.ret

\* C11: a call that returned False committed no item row. The file at the
\* output path is then what it was before the call (the copy failed), the
\* template as copied, or no spreadsheet (the save broke off): it never holds
\* the first k of the call's N items.
C11_NoPartialRowCommit ==
    (returned /\ ~result.ret) =>
        /\ fs[args.output_path] \in
              {pre[args.output_path], pre[args.template_path], Garbage}
        /\ fs[args.output_path].kind = "xlsx" =>
              \A x \in DOMAIN Out :
                  \/ Out[x] = At(Tpl, x[1], x[2])
                  \/ Out[x] = At(pre[args.output_path].cells, x[1], x[2])

\* The second of two items cannot be written, after the first was set in the
\* worksheet in memory: the output file is the bare template copy.
C11_Witness ==
    /\ returned
    /\ ~result.ret
    /\ Tpl = HeaderOnly
    /\ Len(Items) = 2
    /\ Items[1] = Permits
    /\ Items[2] \in BadItems
    /\ result.insert_row = 2
    /\ pre[args.output_path] = Missing
    /\ fs[args.output_path] = Xlsx(HeaderOnly)

\* The file the last process_document call was to write.
DocOut == fs[FileOf(document.out.output_path)]

\* Every item of the list is in the sheet, from some row R on: description in
\* column col, amount in column 2.
HoldsAllItems(cells, items, col) ==
    \E R \in 1..(ScanRows + ScanSlack) :
        \A i \in 1..Len(items) :
            /\ At(cells, R + i - 1, col) = items[i].line_item
            /\ At(cells, R + i - 1, 2) = items[i].amount

\* C12: when populate_template is called with a template that is missing or
\* no spreadsheet, or an output path that cannot be written, it returns False
\* without raising and process_document returns None; process_document
\* returns the output path only when the workbook with all N items is stored
\* at that path.
C12_FailureIsFalseThenNone ==
    (document.done /\ document.out.populated) =>
        /\ document.out.raised = "none"
        /\ (\/ pre[document.template_path].kind \in {"missing", "garbage"}
            \/ ~Writable(FileOf(document.out.output_path))
            \/ document.io # "none")
           => document.out.ret = None
        /\ document.out.ret # None =>
              /\ document.out.ret = Str(document.out.output_path)
              /\ DocOut.kind = "xlsx"
              /\ HoldsAllItems(DocOut.cells, document.out.items, 1)

\* populate_template was called with two items on a template file that is no
\* spreadsheet, and on a good template with a path that cannot be written.
C12_Witness ==
    /\ document.done
    /\ document.out.populated
    /\ Len(document.out.items) = 2
    /\ document.out.ret = None
    /\ \/ pre[document.template_path] = Garbage
       \/ /\ pre[document.template_path] = Xlsx(HeaderOnly)
          /\ FileOf(document.out.output_path) = ReadOnlyPath

\* The answer of the last parse_with_ai call was read as a JSON array.
ParsedArray ==
    /\ parsing.done
    /\ parsing.model
    /\ parsing.response.call = "ok"
    /\ parsing.response.fence # "plain"
    /\ parsing.response.body.t = "array"

\* A number, or a text of decimal digits.
Coercible(v) ==
    \/ v.k = "num"
    \/ /\ v.k = "str"
       /\ Len(Strip(v.s)) > 0
       /\ \A i \in 1..Len(Strip(v.s)) : IsDigit(Strip(v.s)[i])

\* An entry with both keys and an amount that is a number.
ValidEntry(e) == e.t = "dict" /\ BothKeys \subseteq e.keys /\ Coercible(e.amount)

\* The line items of the valid entries, in their order.
ValidSiblings(entries) ==
    LET valid == SelectSeq(entries, ValidEntry)
    IN  [i \in 1..Len(valid) |->
            [line_item |-> Str(Strip(StrOf(valid[i].line_item))),
             amount |-> Num(Float(valid[i].amount).n)]]

\* C13: of an answered JSON array, parse_with_ai returns the valid entries in
\* their order: an entry whose amount cannot be made a number is dropped
\* alone, and no error is raised.
C13_InvalidAmountDroppedAlone ==
    ParsedArray =>
        /\ parsing.out.raised = "none"
        /\ parsing.out.items = ValidSiblings(parsing.response.body.items)

\* C14: parse_with_ai returns the empty list and does not raise when no model
\* is configured (the AI is then not asked), when the call fails, when the
\* answer is no JSON and when the JSON value is no array.
C14_EmptyListOnAnyFailure ==
    parsing.done =>
        /\ parsing.out.raised = "none"
        /\ ~parsing.model => ~parsing.out.asked
        /\ (\/ ~parsing.model
            \/ parsing.response.call = "error"
            \/ parsing.response.body.t = "invalid"
            \/ parsing.response.body.t = "object")
           => parsing.out.items = <<>>

\* The model answered one JSON object that would be a valid entry.
C14_Witness ==
    /\ parsing.done
    /\ parsing.model
    /\ parsing.response.call = "ok"
    /\ parsing.response.fence = "json"
    /\ parsing.response.body = [t |-> "object", items |-> <<PermitsEntry>>]
    /\ parsing.out.items = <<>>

\* C15: every line item parse_with_ai returns has a number >= 0 for amount
\* and a description that is not empty after trimming.
C15_ReturnedItemsAreValid ==
    parsing.done =>
        \A i \in 1..Len(parsing.out.items) :
            /\ parsing.out.items[i].amount.k = "num"
            /\ parsing.out.items[i].amount.n >= 0
            /\ parsing.out.items[i].line_item.k = "str"
            /\ Len(Strip(parsing.out.items[i].line_item.s)) > 0

\* The last extract_text_from_file call: its file, by type, and what breaks.
FileExt == Lower(Suffix(extraction.file.path))

IsPdf == FileExt = <<".","p","d","f">>

IsImage == FileExt \in ImageExts

IsExcel == FileExt \in ExcelExts

\* A library run with this fault breaks on these pages.
Breaks(fault, pages) == fault = "open" \/ (fault = "page" /\ Len(pages) > 0)

PrimaryProduces ==
    /\ extraction.env.pymupdf
    /\ ~Breaks(extraction.env.primary_fault, extraction.file.pages)

SecondaryProduces ==
    /\ extraction.env.pypdf2
    /\ ~Breaks(extraction.env.secondary_fault, extraction.file.pages)

ExtractionFails ==
    \/ ~extraction.file.exists
    \/ ~(IsPdf \/ IsImage \/ IsExcel)
    \/ IsPdf /\ ~PrimaryProduces /\ ~SecondaryProduces
    \/ IsExcel /\ extraction.env.excel_fault
    \/ IsImage /\ (~extraction.env.tesseract \/ extraction.env.ocr_fault)

\* C16: when the extraction fails (missing file, unsupported extension, no
\* PDF library produces text, the spreadsheet cannot be read, OCR is not
\* installed or breaks), extract_text_from_file returns "" and raises nothing.
C16_ExtractionFailureGivesEmptyText ==
    (extraction.done /\ ExtractionFails) =>
        /\ extraction.out.raised = "none"
        /\ extraction.out.text = <<>>

\* C17: for a PDF that exists, the primary library runs first when it is
\* installed; the secondary library runs exactly when it is installed and the
\* primary did not produce the text; with neither installed the extraction
\* ends in the capability error (ImportError); and a returned text is the
\* text of one library's run over the pages.
C17_SecondaryExactlyWhenPrimaryFails ==
    (extraction.done /\ extraction.file.exists /\ IsPdf) =>
        /\ extraction.out.pdf.primary_run = extraction.env.pymupdf
        /\ extraction.out.pdf.secondary_run
              = (extraction.env.pypdf2 /\ ~PrimaryProduces)
        /\ (~extraction.env.pymupdf /\ ~extraction.env.pypdf2)
              => extraction.out.pdf.raised = "ImportError"
        /\ extraction.out.pdf.raised = "none"
              => extraction.out.text = JoinPages(extraction.file.pages)

\* The entries the visited files gave, in their order.
RECURSIVE Recorded(_)
Recorded(visited) ==
    IF Len(visited) = 0 THEN <<>>
    ELSE IF Head(visited).result_path # None
         THEN <<<<Head(visited).result_path.s, Head(visited).name>>>>
              \o Recorded(Tail(visited))
         ELSE Recorded(Tail(visited))

\* C18: in either batch loop the files handled so far are the first i
\* uploaded files, each once and in upload order; the loop ends only after
\* the last file, whatever failed before; and the loop's list holds the
\* entry of every file handled so far that gave an output, in order: a
\* later failure removes none.
C18_FailuresIsolatedPerDocument ==
    /\ session.i <= Len(session.uploaded_files)
    /\ Len(session.visited) = session.i
    /\ \A k \in 1..session.i :
          /\ session.visited[k].index = k
          /\ session.visited[k].name = session.uploaded_files[k].name
    /\ session.mode \in {"done", "aborted"} =>
          session.i = Len(session.uploaded_files)
    /\ session.processed_files = Recorded(session.visited)

\* A batch of two is over: the first file gave an output, the second failed,
\* and the first entry is still in the list.
C18_Witness ==
    /\ session.mode = "done"
    /\ Len(session.uploaded_files) = 2
    /\ session.i = 2
    /\ session.visited[1].result_path # None
    /\ session.visited[2].result_path = None
    /\ Len(session.processed_files) = 1
    /\ session.processed_files[1][2] = session.uploaded_files[1].name

\* The type of the last process_document call's input is not one of the
\* supported ones.
DocUnsupported ==
    LET ext == Lower(Suffix(document.file.path))
    IN  ext # <<".","p","d","f">> /\ ext \notin ImageExts /\ ext \notin ExcelExts

\* The answer gives no line item: no model, a failed call, no JSON array, or
\* an empty one.
DocNoAnswer ==
    \/ ~document.model
    \/ document.response.call = "error"
    \/ document.response.body.t # "array"
    \/ document.response.body.items = <<>>

\* C19: a process_document call on an input of unsupported type, or whose
\* extracted text is empty or whitespace, does not ask the AI; a call that
\* got no line items (no model, no usable answer) does not call
\* populate_template; in each case the call returns None and every file, the
\* one at the output path included, is what it was.
C19_SkippedDocumentWritesNothing ==
    LET Skipped ==
            /\ ~document.out.populated
            /\ document.out.raised = "none"
            /\ document.out.ret = None
            /\ fs = pre
    IN  document.done =>
            /\ (\/ DocUnsupported
                \/ (document.out.raised = "none"
                       /\ Len(Strip(document.out.text)) = 0)) =>
                  ~document.out.asked /\ Skipped
            /\ (document.out.raised = "none" /\ DocNoAnswer) =>
                  document.out.items = <<>>
            /\ (document.out.raised = "none" /\ document.out.items = <<>>) =>
                  Skipped

\* The input file's name without directory and last extension.
ClaimedStem(path) ==
    CASE path = <<"d","o","c",".","p","d","f">> -> <<"d","o","c">>
      [] path = <<"i","n","/","d","o","c",".","v","2",".","P","D","F">> ->
            <<"d","o","c",".","v","2">>
      [] path = <<"s","c","a","n",".","p","n","g">> -> <<"s","c","a","n">>
      [] path = <<"d","o","c",".","x","l","s","x">> -> <<"d","o","c">>
      [] path = <<"d","o","c",".","t","x","t">> -> <<"d","o","c">>

\* The path the last process_document call has to write to.
ClaimedOutputPath ==
    IF document.output_path # None THEN document.output_path.s
    ELSE <<"C","O","M","P","L","E","T","E","D","_">>
         \o ClaimedStem(document.file.path)
         \o <<"_","b","r","e","a","k","d","o","w","n",".","x","l","s","x">>

\* C20: a process_document call writes to the caller's output path when one
\* is given and else to COMPLETED_<stem>_breakdown.xlsx, <stem> being the
\* input's name without directory and last extension: a returned path is
\* that path, the spreadsheet with the line items is there, and no other file
\* has changed.
C20_OutputPathConvention ==
    document.done =>
        /\ \A p \in DocPaths \ {FileOf(ClaimedOutputPath)} : fs[p] = pre[p]
        /\ document.out.ret # None =>
              /\ document.out.ret = Str(ClaimedOutputPath)
              /\ fs[FileOf(ClaimedOutputPath)].kind = "xlsx"
              /\ HoldsAllItems(fs[FileOf(ClaimedOutputPath)].cells,
                               document.out.items, 1)

\* No output path given, the input in a directory and with two dots in its
\* name: the output is COMPLETED_doc.v2_breakdown.xlsx.
C20_Witness ==
    /\ document.done
    /\ document.output_path = None
    /\ document.file.path = <<"i","n","/","d","o","c",".","v","2",".","P","D","F">>
    /\ document.out.ret = Str(PathText(OutputPathV2))
    /\ fs[OutputPathV2].kind = "xlsx"
    /\ fs[OutputPathV2] # pre[OutputPathV2]
    /\ fs[OutputPath] = pre[OutputPath]

\* How often a stage occurs among the calls of the last process_document.
TimesRun(stage) ==
    Cardinality({i \in 1..Len(document.out.stages) :
                    <<document.out.stages[i]>> = stage})

\* The stage that gave nothing, after which the document is given up.
ExtractionGaveNothing ==
    document.out.raised # "none" \/ Len(Strip(document.out.text)) = 0

\* C21: one process_document call runs its stages at most once each and in
\* the order extract, AI parse, populate; it stops at the first stage that
\* fails or gives nothing and starts none again: at most one request goes to
\* the AI and populate_template is called at most once.
C21_NoAutomaticRetries ==
    document.done =>
        /\ \E n \in 1..3 :
              document.out.stages =
                  SubSeq(<<"extract_text_from_file", "parse_with_ai",
                           "populate_template">>, 1, n)
        /\ document.out.requests <= 1
        /\ document.out.requests = 1 => TimesRun(ParseStage) = 1
        /\ TimesRun(PopulateStage) <= 1
        /\ ExtractionGaveNothing =>
              TimesRun(ExtractStage) = 1 /\ Len(document.out.stages) = 1
        /\ (~ExtractionGaveNothing /\ document.out.items = <<>>) =>
              Len(document.out.stages) = 2
        /\ (document.out.populated /\ document.out.ret = None) =>
              Len(document.out.stages) = 3

\* The request to the AI failed: it was sent once and the document given up
\* after the second stage.
C21_Witness ==
    /\ document.done
    /\ document.model
    /\ document.response.call = "error"
    /\ document.out.asked
    /\ document.out.requests = 1
    /\ document.out.stages = <<"extract_text_from_file", "parse_with_ai">>
    /\ document.out.ret = None

\* The cells of rows 1..10, columns 1..5 that match in any case but do not
\* hold the exact text.
LooseOnlyCells(cells) == LooseCells(cells, 5) \ ExactCells(cells)

\* C22: when the block of rows 1..10, columns 1..10 holds a cell with the
\* exact text, the header row and the description column are those of an
\* exact cell and never those of a cell that matches only in another case,
\* wherever such a cell lies, before the exact cell in row-major order
\* included.
C22_ExactScanHasPriority ==
    (Succeeded /\ ExactCells(Tpl) # {}) =>
        /\ Header \in ExactCells(Tpl)
        /\ Header \notin LooseOnlyCells(Tpl)
        /\ \A x \in LooseOnlyCells(Tpl) :
              Before(x, Header) => \A y \in ExactCells(Tpl) : ~Before(y, Header)

\* A cell that matches only in another case lies in an earlier row than the
\* exact cell, and the exact cell is the header.
C22_Witness ==
    /\ Succeeded
    /\ \E x \in LooseOnlyCells(Tpl), y \in ExactCells(Tpl) :
          /\ x[1] < y[1]
          /\ Before(x, y)
          /\ Header = y
          /\ result.start_row = y[1] + 1

\* The last row of the template that holds a value, 0 when no cell does.
LastPopulatedRow(cells) == IF DOMAIN cells = {} THEN 0 ELSE SetMax(RowsOf(cells))

\* C23 as stated: for every template the insertion row R lies between the
\* start row and the row after the last populated row, so that no empty row
\* is left between the template's content and the items.
C23_InsertRowBoundedForEveryTemplate ==
    Succeeded =>
        /\ ClaimedStartRow <= result.insert_row
        /\ result.insert_row <= LastPopulatedRow(Tpl) + 1

\* C23, amended: for every template that holds a value the insertion row R
\* lies between the start row and the row after the last populated row; in a
\* template without any value R is row 2 and row 1 stays empty. In both
\* cases R is a row whose description cell is empty in the template and every
\* description cell from the start row to R - 1 is filled: the scan found R,
\* not the branch for "no empty row found".
C23_InsertRowBoundedByContent ==
    Succeeded =>
        /\ ClaimedStartRow <= result.insert_row
        /\ DOMAIN Tpl # {} => result.insert_row <= LastPopulatedRow(Tpl) + 1
        /\ DOMAIN Tpl = {} => result.insert_row = 2
        /\ BlankCell(At(Tpl, result.insert_row, result.line_item_col_idx))
        /\ \A r \in ClaimedStartRow..(result.insert_row - 1) :
              ~BlankCell(At(Tpl, r, result.line_item_col_idx))

\* The description column is filled down to the template's last populated
\* row: the scan runs past the start row and ends on the row after it.
C23_Witness ==
    /\ Succeeded
    /\ result.header_row # 0
    /\ result.insert_row > result.start_row
    /\ result.insert_row = LastPopulatedRow(Tpl) + 1
    /\ Len(Items) > 0
    /\ At(Out, result.insert_row, result.line_item_col_idx) = Items[1].line_item

\* C24: after a populate_template call that returned False, a file that was
\* at the output path before the call has the content it had.
C24_ExistingOutputKeptOnFailure ==
    (returned /\ ~result.ret /\ pre[args.output_path] # Missing) =>
        fs[args.output_path] = pre[args.output_path]

\* The entries of list before are the first entries of list after.
StartsWith(after, before) ==
    /\ Len(before) <= Len(after)
    /\ SubSeq(after, 1, Len(before)) = before

\* C25: the session's list of completed outputs only grows, except by "Clear
\* Results": every step of the application other than that button keeps the
\* entries the list holds, and the end of a batch run, in AI mode or manual
\* mode, leaves in it the entry of every document of the run that gave an
\* output.
C25_SessionListAccumulates ==
    [][\/ ClearResults
       \/ /\ StartsWith(session'.state_processed_files,
                        session.state_processed_files)
          /\ (session.mode \in {"ai", "manual"} /\ session'.mode = "done") =>
                \A k \in 1..Len(session.processed_files) :
                    \E j \in 1..Len(session'.state_processed_files) :
                        session'.state_processed_files[j]
                            = session.processed_files[k]]_vars

\* The files of the last batch run that were handled by manual entry.
ManualVisits ==
    {k \in 1..Len(session.visited) : session.visited[k].mode = "manual"}

\* The rows the forms hold.
RowsOfForms ==
    UNION {{c.rows[j] : j \in 1..Len(c.rows)} : c \in Conditions}

\* item is the row of the form, its description trimmed.
FromRow(item, row) ==
    /\ item.line_item = Str(Strip(row.line_item))
    /\ item.amount = Num(row.amount)

\* C26: in manual mode populate_template is called for a file only with a
\* list that is not empty, and every item of the list has a description that
\* is text, trimmed and not empty, and an amount that is a number >= 0; each
\* item is a row of the form that has a description, so rows with a blank
\* description are not among them.
C26_ManualItemsSatisfyInvariants ==
    \A k \in ManualVisits :
        LET v == session.visited[k]
        IN  /\ v.populated => Len(v.line_items) >= 1
            /\ ~v.populated => v.line_items = <<>>
            /\ \A i \in 1..Len(v.line_items) :
                  LET item == v.line_items[i]
                  IN  /\ item.line_item.k = "str"
                      /\ Len(item.line_item.s) > 0
                      /\ Strip(item.line_item.s) = item.line_item.s
                      /\ item.amount.k = "num"
                      /\ item.amount.n >= 0
                      /\ \E row \in RowsOfForms :
                            /\ FromRow(item, row)
                            /\ Len(Strip(row.line_item)) > 0

\* A form of three rows, one with a blank description and one with amount 0,
\* was submitted: populate_template got the one remaining row, trimmed.
C26_Witness ==
    /\ session.mode = "done"
    /\ \E k \in ManualVisits :
          /\ session.visited[k].populated
          /\ session.visited[k].result_path # None
          /\ session.visited[k].line_items =
                <<[line_item |-> Str(<<"P","E","R","M","I","T","S">>),
                   amount |-> Num(10000)]>>

\* The files of the last batch run that gave an entry.
Completed ==
    {k \in 1..Len(session.visited) : session.visited[k].result_path # None}

\* The spreadsheet an entry's path names.
RecordedSheet(k) == fs[FileOf(session.visited[k].result_path.s)]

\* No two files of the batch have the same name.
DistinctNames ==
    \A j \in 1..Len(session.uploaded_files), k \in 1..Len(session.uploaded_files) :
        j # k => session.uploaded_files[j].name # session.uploaded_files[k].name

\* C27: when a batch run over files of different names is over, the recorded
\* output path of every document that was processed successfully names a
\* spreadsheet holding the line items of that document, and no two of these
\* paths are the same, uploads that differ only in their extension included.
C27_OutputsNotShared ==
    (session.mode = "done" /\ DistinctNames) =>
        /\ \A k \in Completed :
              /\ RecordedSheet(k).kind = "xlsx"
              /\ HoldsAllItems(RecordedSheet(k).cells,
                               session.visited[k].line_items, 1)
        /\ \A j \in Completed, k \in Completed :
              session.visited[j].name # session.visited[k].name =>
                  session.visited[j].result_path # session.visited[k].result_path

====
